---- MODULE Spec2Model ----
(***************************************************************************)
(* Model of the byte-size chunked aggregator (src/unnamed/part_001, the    *)
(* script that starts at line 216): readJsonDir, cleanAllFiles,            *)
(* writeChunkedAll, writeJson and aggregate, run over a small file system. *)
(***************************************************************************)
EXTENDS Integers, Sequences, FiniteSets, TLC

(* ------------------------------- bounds -------------------------------- *)
\* most source files in the three collection directories together
MaxSrcFiles == 2
\* aggregation runs in one behaviour
MaxRuns == 2
\* rm() calls that throw in one run
MaxRmFailures == 1
\* longest record sequence handed directly to writeChunkedAll
MaxLen == 3
\* byte budgets of those direct calls: 0, 15, .. , 15 * MaxPartBudgetSteps
MaxPartBudgetSteps == 2

(* --------------------------- program constants ------------------------- *)
\* AGGREGATE_MAX_CHUNK_BYTES default
DefaultMaxChunkBytes == 1800000

\* budgets of the runs: one that holds a chunk of one empty record (9 bytes)
\* and not of two (15 bytes), and the default
Budgets == {14, DefaultMaxChunkBytes}
PartBudgets ==
  {15 * k : k \in 0..MaxPartBudgetSteps} \cup {DefaultMaxChunkBytes}

\* the collections in the order aggregate() handles them
DirSeq == <<"items", "quests", "hideout">>
Dirs == {"items", "quests", "hideout"}

(* ------------------------------ JSON values ---------------------------- *)
\* A parsed JSON value: a one-digit number or an array of values.
Num == [t |-> "n", e |-> <<>>]
Arr(es) == [t |-> "a", e |-> es]
\* The text of a file that JSON.parse rejects, or that parses to no object.
Invalid == [t |-> "x", e |-> <<>>]

\* Records: [], [1] and [1, 1]
R0 == Arr(<<>>)
R1 == Arr(<<Num>>)
R2 == Arr(<<Num, Num>>)
\* What a source file of a run may hold: a record, or text that is no record.
Contents == {R0, Invalid}

RECURSIVE PrettyLen(_, _)
RECURSIVE ElemsLen(_, _)
\* Length of JSON.stringify(v, null, 2) for v placed at indentation d.
PrettyLen(v, d) ==
  IF v.t = "n" THEN 1
  ELSE IF Len(v.e) = 0 THEN 2
  ELSE 1 + ElemsLen(v.e, d + 2) + (Len(v.e) - 1) + 1 + d + 1
\* Each element: newline, indentation, the element itself.
ElemsLen(es, d) ==
  IF es = <<>> THEN 0
  ELSE 1 + d + PrettyLen(Head(es), d) + ElemsLen(Tail(es), d)

\* Bytes writeJson puts in the file: JSON.stringify(value, null, 2) + "\n".
JsonBytes(v) == PrettyLen(v, 0) + 1

(* ------------------------------ file names ----------------------------- *)
\* A file of a collection directory: a source file a<k>.json (these names
\* sort before every all*.json), a chunk all_<k>.json, or all.json; and the
\* collection's legacy file in the root directory.
SrcName(k) == [kind |-> "src", k |-> k]
ChunkName(k) == [kind |-> "chunk", k |-> k]
AllName == [kind |-> "all", k |-> 0]
LegacyName == [kind |-> "legacy", k |-> 0]
Path(d, name) == [dir |-> d, kind |-> name.kind, k |-> name.k]

\* a cleaner that matches all.json only
IsAllFile_onlyAllJson(name) == name.kind = "all"

\* /^all(_\d+)?\.json$/i
IsAllFile(name) == name.kind \in {"all", "chunk"}
\* f.toLowerCase() !== "all.json"
NotAllJson(name) == name.kind # "all"

RECURSIVE Digits(_)
Digits(n) == IF n < 10 THEN <<n>> ELSE Append(Digits(n \div 10), n % 10)
RECURSIVE LexLess(_, _)
LexLess(a, b) ==
  IF a = <<>> THEN b # <<>>
  ELSE IF b = <<>> THEN FALSE
  ELSE IF Head(a) # Head(b) THEN Head(a) < Head(b)
  ELSE LexLess(Tail(a), Tail(b))
\* a.localeCompare(b, "en") < 0 for two chunk names all_<j>.json, all_<k>.json
ChunkNameBefore(j, k) == LexLess(Digits(j), Digits(k))
RECURSIVE SortChunkIds(_)
SortChunkIds(S) ==
  IF S = {} THEN <<>>
  ELSE LET m == CHOOSE x \in S : \A y \in S \ {x} : ChunkNameBefore(x, y)
       IN <<m>> \o SortChunkIds(S \ {m})

(* --------------------------------- state ------------------------------- *)
VARIABLES
  GITHUB_SHA,       \* process.env.GITHUB_SHA: <<>> unset, else <<string>>
  MAX_CHUNK_BYTES,  \* the byte budget of the running process
  isDir,            \* isDir[d]: the collection directory d exists
  src,              \* src[d]: contents of the source files a1.json, a2.json ..
  chunkFile,        \* chunkFile[d][k]: the array stored in d/all_<k>.json
  allJson,          \* allJson[d]: <<>> or <<document stored in d/all.json>>
  legacy,           \* legacy[d]: <<>> or <<document of d's legacy root file>>
  pc,               \* position of aggregate()
  di,               \* index in DirSeq of the collection being handled
  files,            \* files[d]: the file names readJsonDir(d) went through
  recs,             \* recs[d]: the array readJsonDir(d) returned
  rmPending,        \* paths whose rm() has been issued and has not settled
  rmFailed,         \* paths whose rm() threw in this run
  vi,               \* writeChunkedAll: index of the next value of the for-of
  current,          \* writeChunkedAll: current
  chunkArrays,      \* writeChunkedAll: chunkArrays
  chunkFiles,       \* writeChunkedAll: chunkFiles
  written,          \* paths written by writeJson in this run
  runs              \* number of the run

fsVars == <<isDir, src, chunkFile, allJson, legacy>>
envVars == <<GITHUB_SHA, MAX_CHUNK_BYTES>>
wcaVars == <<vi, current, chunkArrays, chunkFiles>>
vars == <<GITHUB_SHA, MAX_CHUNK_BYTES, isDir, src, chunkFile, allJson, legacy,
          pc, di, files, recs, rmPending, rmFailed, vi, current, chunkArrays,
          chunkFiles, written, runs>>

\* process.env.GITHUB_SHA ?? null: an empty stamp is kept
VERSION_nullish == GITHUB_SHA

\* const VERSION = process.env.GITHUB_SHA || null;   (<<>> is null)
VERSION == IF GITHUB_SHA = <<>> \/ GITHUB_SHA[1] = "" THEN <<>> ELSE GITHUB_SHA

Dir == DirSeq[di]

(* ------------------------------ readJsonDir ---------------------------- *)
\* readdir(dirPath)
Entries(d) ==
  {SrcName(k) : k \in 1..Len(src[d])}
    \cup {ChunkName(k) : k \in DOMAIN chunkFile[d]}
    \cup (IF allJson[d] # <<>> THEN {AllName} ELSE {})

\* entries.filter(.json).filter(not all.json).sort(localeCompare)
FileList(d) ==
  LET keep == {f \in Entries(d) : NotAllJson(f)}
      srcs == [k \in 1..Len(src[d]) |-> SrcName(k)]
      ids == SortChunkIds({f.k : f \in {g \in keep : g.kind = "chunk"}})
  IN srcs \o [j \in 1..Len(ids) |-> ChunkName(ids[j])]

\* readFile + JSON.parse of one file of d
Parse(d, f) == IF f.kind = "src" THEN src[d][f.k] ELSE Arr(chunkFile[d][f.k])

\* if (json && typeof json === "object"), with a JSON.parse throw skipped
IsObject(v) == v.t = "a"

RECURSIVE ParseAll(_, _)
ParseAll(d, fs) ==
  IF fs = <<>> THEN <<>>
  ELSE LET v == Parse(d, Head(fs))
       IN (IF IsObject(v) THEN <<v>> ELSE <<>>) \o ParseAll(d, Tail(fs))

ReadJsonDir ==
  /\ pc = "read"
  /\ LET d == Dir
         fl == IF isDir[d] THEN FileList(d) ELSE <<>>
     IN /\ files' = [files EXCEPT ![d] = fl]
        /\ recs' = [recs EXCEPT ![d] = ParseAll(d, fl)]
  /\ IF di < 3 THEN /\ di' = di + 1
                    /\ pc' = pc
     ELSE /\ di' = 1
          /\ pc' = "if_agg"
  /\ UNCHANGED <<fsVars, envVars, wcaVars, rmPending, rmFailed, written, runs>>

(* --------------------------- aggregate: the ifs ------------------------ *)
\* if (items.length > 0) { cleanAllFiles; writeChunkedAll }, then quests,
\* then hideout
\* the length test left out
NonEmpty_always(d) == TRUE

\* items.length > 0, quests.length > 0, hideout.length > 0
NonEmpty(d) == Len(recs[d]) > 0

IfAggregate ==
  /\ pc = "if_agg"
  /\ IF NonEmpty(Dir) THEN /\ pc' = "clean"
                                /\ di' = di
     ELSE IF di < 3 THEN /\ pc' = pc
                         /\ di' = di + 1
     ELSE /\ pc' = "if_legacy"
          /\ di' = 1
  /\ UNCHANGED <<fsVars, envVars, wcaVars, files, recs, rmPending, rmFailed,
                 written, runs>>

(* ----------------------------- cleanAllFiles --------------------------- *)
\* stat, readdir, the filter, and the rm() of every target issued at once
CleanAllFiles ==
  /\ pc = "clean"
  /\ LET d == Dir
         targets == IF isDir[d] THEN {f \in Entries(d) : IsAllFile(f)} ELSE {}
     IN rmPending' = rmPending \cup {Path(d, f) : f \in targets}
  /\ pc' = "await_rm"
  /\ UNCHANGED <<fsVars, envVars, wcaVars, di, files, recs, rmFailed,
                 written, runs>>

\* the file system without the file at path p
Unlink(p) ==
  /\ chunkFile' =
       IF p.kind = "chunk"
       THEN [chunkFile EXCEPT ![p.dir] =
               [j \in DOMAIN chunkFile[p.dir] \ {p.k} |-> chunkFile[p.dir][j]]]
       ELSE chunkFile
  /\ allJson' = IF p.kind = "all" THEN [allJson EXCEPT ![p.dir] = <<>>]
                ELSE allJson
  /\ UNCHANGED <<isDir, src, legacy>>

\* one rm(path, { force: true }) resolves
RmDone ==
  \E p \in rmPending :
    /\ Unlink(p)
    /\ rmPending' = rmPending \ {p}
    /\ UNCHANGED <<envVars, wcaVars, pc, di, files, recs, rmFailed, written,
                   runs>>

\* no try/catch around rm(): the rejection reaches aggregate().catch
AfterRmError_rethrows(p) == "failed"

\* where control is after an rm() threw: catch {} swallows the error
AfterRmError(p) == p

\* one rm(path, { force: true }) throws; the file stays
RmThrows ==
  \E p \in rmPending :
    /\ Cardinality(rmFailed) < MaxRmFailures
    /\ rmPending' = rmPending \ {p}
    /\ rmFailed' = rmFailed \cup {p}
    /\ pc' = AfterRmError(pc)
    /\ UNCHANGED <<fsVars, envVars, wcaVars, di, files, recs, written, runs>>

\* Promise.all(...) not awaited
AllSettled_noAwait == TRUE

\* await Promise.all(...): every rm() has settled
AllSettled == rmPending = {}

CleanReturn ==
  /\ pc = "await_rm"
  /\ AllSettled
  /\ pc' = "wca"
  /\ UNCHANGED <<fsVars, envVars, wcaVars, di, files, recs, rmPending,
                 rmFailed, written, runs>>

(* ---------------------------- writeChunkedAll -------------------------- *)
\* the values argument of the running writeChunkedAll(dir, values)
values == recs[Dir]

\* the size test made on the chunk without the candidate
fitsWith_ignoresItem(arr, item) == JsonBytes(Arr(arr)) <= MAX_CHUNK_BYTES

\* the size test with < for <=
fitsWith_strict(arr, item) ==
  JsonBytes(Arr(Append(arr, item))) < MAX_CHUNK_BYTES

\* fitsWith(arr, item)
fitsWith(arr, item) == JsonBytes(Arr(Append(arr, item))) <= MAX_CHUNK_BYTES

\* the two early returns, then chunkArrays = [], current = []
WriteChunkedAllEnter ==
  /\ pc = "wca"
  /\ IF Len(values) = 0 \/ ~isDir[Dir]
     THEN /\ IF di < 3 THEN pc' = "if_agg" /\ di' = di + 1
                       ELSE pc' = "if_legacy" /\ di' = 1
     ELSE /\ pc' = "loop"
          /\ di' = di
  /\ vi' = 1
  /\ current' = <<>>
  /\ chunkArrays' = <<>>
  /\ chunkFiles' = <<>>
  /\ UNCHANGED <<fsVars, envVars, files, recs, rmPending, rmFailed, written,
                 runs>>

\* current = []: the record that did not fit is lost
StartChunk_dropsRecord(v) == <<>>

\* current = [v]
StartChunk(v) == <<v>>

loopFrame == <<fsVars, envVars, pc, di, files, recs, rmPending, rmFailed,
               chunkFiles, written, runs>>

\* if (current.length === 0) { current.push(v); continue; }
LoopFirst ==
  /\ pc = "loop"
  /\ vi <= Len(values)
  /\ Len(current) = 0
  /\ current' = Append(current, values[vi])
  /\ vi' = vi + 1
  /\ UNCHANGED <<chunkArrays, loopFrame>>

\* if (fitsWith(current, v)) current.push(v);
LoopFits ==
  /\ pc = "loop"
  /\ vi <= Len(values)
  /\ Len(current) # 0
  /\ fitsWith(current, values[vi])
  /\ current' = Append(current, values[vi])
  /\ vi' = vi + 1
  /\ UNCHANGED <<chunkArrays, loopFrame>>

\* else { chunkArrays.push(current); current = [v]; }
LoopSeals ==
  /\ pc = "loop"
  /\ vi <= Len(values)
  /\ Len(current) # 0
  /\ ~fitsWith(current, values[vi])
  /\ chunkArrays' = Append(chunkArrays, current)
  /\ current' = StartChunk(values[vi])
  /\ vi' = vi + 1
  /\ UNCHANGED loopFrame

\* if (current.length) chunkArrays.push(current);
LoopEnd ==
  /\ pc = "loop"
  /\ vi > Len(values)
  /\ chunkArrays' = IF Len(current) # 0 THEN Append(chunkArrays, current)
                    ELSE chunkArrays
  /\ pc' = "write_chunks"
  /\ UNCHANGED <<fsVars, envVars, di, files, recs, rmPending, rmFailed, vi,
                 current, chunkFiles, written, runs>>

\* writeJson(path.join(dir, `all_${i + 1}.json`), chunkArrays[i]), i being
\* chunkFiles.length
WriteChunk ==
  /\ pc = "write_chunks"
  /\ Len(chunkFiles) < Len(chunkArrays)
  /\ LET k == Len(chunkFiles) + 1
         d == Dir
     IN /\ chunkFile' =
             [chunkFile EXCEPT ![d] =
                [j \in DOMAIN chunkFile[d] \cup {k} |->
                   IF j = k THEN chunkArrays[k] ELSE chunkFile[d][j]]]
        /\ chunkFiles' = Append(chunkFiles, ChunkName(k))
        /\ written' = written \cup {Path(d, ChunkName(k))}
  /\ UNCHANGED <<isDir, src, allJson, legacy, envVars, pc, di, files, recs,
                 rmPending, rmFailed, vi, current, chunkArrays, runs>>

\* the document put in all.json when there is one chunk
ArrayDoc(chunk) == [kind |-> "array", obj |-> chunk]

\* the manifest put in all.json otherwise
Manifest ==
  IF VERSION # <<>>
  THEN [chunks |-> chunkFiles, count |-> Len(values),
        maxChunkBytes |-> MAX_CHUNK_BYTES, version |-> VERSION[1]]
  ELSE [chunks |-> chunkFiles, count |-> Len(values),
        maxChunkBytes |-> MAX_CHUNK_BYTES]
ManifestDoc == [kind |-> "manifest", obj |-> Manifest]

\* chunkArrays.length <= 2
SingleChunk_upToTwo == Len(chunkArrays) <= 2

\* if (chunkArrays.length === 1)
SingleChunk == Len(chunkArrays) = 1

\* writeJson(path.join(dir, "all.json"), ...) and the return
WriteAll ==
  /\ pc = "write_chunks"
  /\ Len(chunkFiles) = Len(chunkArrays)
  /\ allJson' = [allJson EXCEPT ![Dir] =
                   IF SingleChunk THEN <<ArrayDoc(chunkArrays[1])>>
                   ELSE <<ManifestDoc>>]
  /\ written' = written \cup {Path(Dir, AllName)}
  /\ IF di < 3 THEN pc' = "if_agg" /\ di' = di + 1
               ELSE pc' = "if_legacy" /\ di' = 1
  /\ UNCHANGED <<isDir, src, chunkFile, legacy, envVars, files, recs,
                 rmPending, rmFailed, wcaVars, runs>>

(* ------------------------------ legacy files --------------------------- *)
\* if (items.length > 0) ..; if (quests.length > 0) ..; if (hideout.length > 0)
IfLegacy ==
  /\ pc = "if_legacy"
  /\ IF NonEmpty(Dir) THEN /\ pc' = "write_legacy"
                                /\ di' = di
     ELSE IF di < 3 THEN /\ pc' = pc
                         /\ di' = di + 1
     ELSE /\ pc' = "done"
          /\ di' = di
  /\ UNCHANGED <<fsVars, envVars, wcaVars, files, recs, rmPending, rmFailed,
                 written, runs>>

\* items.json is { version?, items }, quests.json and hideoutModules.json
\* are the bare arrays
LegacyDoc(d) ==
  IF d = "items"
  THEN IF VERSION # <<>>
       THEN [kind |-> "items", obj |-> [version |-> VERSION[1], items |-> recs[d]]]
       ELSE [kind |-> "items", obj |-> [items |-> recs[d]]]
  ELSE [kind |-> "array", obj |-> recs[d]]

WriteLegacy ==
  /\ pc = "write_legacy"
  /\ legacy' = [legacy EXCEPT ![Dir] = <<LegacyDoc(Dir)>>]
  /\ written' = written \cup {Path(Dir, LegacyName)}
  /\ IF di < 3 THEN pc' = "if_legacy" /\ di' = di + 1
               ELSE pc' = "done" /\ di' = di
  /\ UNCHANGED <<isDir, src, chunkFile, allJson, envVars, wcaVars, files,
                 recs, rmPending, rmFailed, runs>>

\* a writeFile throws: aggregate() rejects, the catch logs and exits 1
WriteThrows ==
  /\ pc \in {"write_chunks", "write_legacy"}
  /\ pc' = "failed"
  /\ UNCHANGED <<fsVars, envVars, wcaVars, di, files, recs, rmPending,
                 rmFailed, written, runs>>

(* -------------------------------- the runs ----------------------------- *)
NoRecs == [d \in Dirs |-> <<>>]

\* the script is started again after a completed run, with any budget
NewRun ==
  /\ pc = "done"
  /\ runs < MaxRuns
  /\ runs' = runs + 1
  /\ \E b \in Budgets : MAX_CHUNK_BYTES' = b
  /\ pc' = "read"
  /\ di' = 1
  /\ files' = NoRecs
  /\ recs' = NoRecs
  /\ rmPending' = {}
  /\ rmFailed' = {}
  /\ vi' = 1
  /\ current' = <<>>
  /\ chunkArrays' = <<>>
  /\ chunkFiles' = <<>>
  /\ written' = {}
  /\ UNCHANGED <<fsVars, GITHUB_SHA>>

RECURSIVE SeqsUpTo(_, _)
\* the sequences over S of length at most n
SeqsUpTo(S, n) ==
  IF n = 0 THEN {<<>>}
  ELSE LET shorter == SeqsUpTo(S, n - 1)
       IN shorter \cup {Append(s, x) : s \in shorter, x \in S}

ShaValues == {<<>>, <<"">>, <<"abc123">>}

\* a checkout with no generated file, at the start of the first run
Init ==
  /\ GITHUB_SHA \in ShaValues
  /\ MAX_CHUNK_BYTES \in Budgets
  /\ src \in [Dirs -> SeqsUpTo(Contents, MaxSrcFiles)]
  /\ Len(src["items"]) + Len(src["quests"]) + Len(src["hideout"]) <= MaxSrcFiles
  /\ \E missing \in {"hideout", "none"} : isDir = [d \in Dirs |-> d # missing]
  /\ \A d \in Dirs : ~isDir[d] => src[d] = <<>>
  /\ chunkFile = [d \in Dirs |-> <<>>]
  /\ allJson = NoRecs
  /\ legacy = NoRecs
  /\ pc = "read"
  /\ di = 1
  /\ files = NoRecs
  /\ recs = NoRecs
  /\ rmPending = {}
  /\ rmFailed = {}
  /\ vi = 1
  /\ current = <<>>
  /\ chunkArrays = <<>>
  /\ chunkFiles = <<>>
  /\ written = {}
  /\ runs = 1

Next ==
  \/ ReadJsonDir
  \/ IfAggregate
  \/ CleanAllFiles
  \/ RmDone
  \/ RmThrows
  \/ CleanReturn
  \/ WriteChunkedAllEnter
  \/ LoopFirst
  \/ LoopFits
  \/ LoopSeals
  \/ LoopEnd
  \/ WriteChunk
  \/ WriteAll
  \/ IfLegacy
  \/ WriteLegacy
  \/ WriteThrows
  \/ NewRun

Spec == Init /\ [][Next]_vars

(* ------------------ writeChunkedAll called on its own ------------------ *)
PartRecords == {R0, R1, R2}

\* writeChunkedAll("items", R) is entered with any record sequence R and any
\* budget, in a process that has done nothing else
InitPart ==
  /\ GITHUB_SHA = <<>>
  /\ MAX_CHUNK_BYTES \in PartBudgets
  /\ src = NoRecs
  /\ isDir = [d \in Dirs |-> d = "items"]
  /\ chunkFile = [d \in Dirs |-> <<>>]
  /\ allJson = NoRecs
  /\ legacy = NoRecs
  /\ pc = "wca"
  /\ di = 1
  /\ files = NoRecs
  /\ \E R \in SeqsUpTo(PartRecords, MaxLen) :
       recs = [d \in Dirs |-> IF d = "items" THEN R ELSE <<>>]
  /\ rmPending = {}
  /\ rmFailed = {}
  /\ vi = 1
  /\ current = <<>>
  /\ chunkArrays = <<>>
  /\ chunkFiles = <<>>
  /\ written = {}
  /\ runs = 1

NextPart ==
  \/ WriteChunkedAllEnter
  \/ LoopFirst
  \/ LoopFits
  \/ LoopSeals
  \/ LoopEnd
  \/ WriteChunk
  \/ WriteAll

SpecPart == InitPart /\ [][NextPart]_vars

(* ============================== properties ============================= *)
RECURSIVE Flatten(_)
\* the concatenation of a sequence of sequences
Flatten(ss) == IF ss = <<>> THEN <<>> ELSE Head(ss) \o Flatten(Tail(ss))

\* the chunk numbers writeJson has written for d in this run
WrittenChunks(d) == {p.k : p \in {q \in written : q.dir = d /\ q.kind = "chunk"}}
WroteAll(d) == Path(d, AllName) \in written
WroteLegacy(d) == Path(d, LegacyName) \in written
\* the chunk files of d numbered 1 .. n, in order
ChunkFilesUpTo(d, n) == [k \in 1..n |-> chunkFile[d][k]]
\* bytes of a chunk as writeJson puts it in its file
ChunkBytes(chunk) == JsonBytes(Arr(chunk))
InPartition == pc \in {"loop", "write_chunks"}

(* C1: the chunks, concatenated in chunk order, are the input records: while
   the loop runs the sealed chunks and the current one hold exactly the
   records consumed so far, after it chunkArrays holds all of them, and once
   all.json is written the chunk files all_1 .. all_N of the collection
   concatenate to the records read for it. *)
C1_ConcatIsInput ==
  /\ pc = "loop" =>
       Flatten(chunkArrays) \o current = SubSeq(values, 1, vi - 1)
  /\ pc = "write_chunks" => Flatten(chunkArrays) = values
  /\ \A d \in Dirs :
       WroteAll(d) =>
         /\ WrittenChunks(d) = 1..Cardinality(WrittenChunks(d))
         /\ Flatten(ChunkFilesUpTo(d, Cardinality(WrittenChunks(d)))) = recs[d]

C1_Witness ==
  /\ WroteAll("items")
  /\ Cardinality(WrittenChunks("items")) >= 2
  /\ Len(recs["items"]) >= 3
  /\ \E k \in WrittenChunks("items") : Len(chunkFile["items"][k]) >= 2

(* C2 as stated: a written chunk is within the budget unless it holds exactly
   one record whose own serialization exceeds the budget. *)
C2_Original ==
  \A d \in Dirs : \A k \in WrittenChunks(d) :
    LET chunk == chunkFile[d][k]
    IN \/ ChunkBytes(chunk) <= MAX_CHUNK_BYTES
       \/ Len(chunk) = 1 /\ PrettyLen(chunk[1], 0) > MAX_CHUNK_BYTES

(* C2 amended: every chunk of two or more records is within the budget, as
   partitioned and as written; a chunk over the budget holds exactly one
   record. *)
C2_MultiRecordChunksFit ==
  /\ InPartition =>
       /\ \A i \in 1..Len(chunkArrays) :
            Len(chunkArrays[i]) >= 2 =>
              ChunkBytes(chunkArrays[i]) <= MAX_CHUNK_BYTES
       /\ Len(current) >= 2 => ChunkBytes(current) <= MAX_CHUNK_BYTES
  /\ \A d \in Dirs : \A k \in WrittenChunks(d) :
       /\ Len(chunkFile[d][k]) >= 1
       /\ Len(chunkFile[d][k]) >= 2 =>
            ChunkBytes(chunkFile[d][k]) <= MAX_CHUNK_BYTES

C2_Witness ==
  /\ WroteAll("items")
  /\ \E j, k \in WrittenChunks("items") :
       /\ Len(chunkFile["items"][j]) >= 2
       /\ Len(chunkFile["items"][k]) = 1
       /\ ChunkBytes(chunkFile["items"][k]) > MAX_CHUNK_BYTES
       /\ PrettyLen(chunkFile["items"][k][1], 0) <= MAX_CHUNK_BYTES

(* C9: greedy and maximal. State part: every sealed chunk is non-empty, and a
   sealed chunk followed by the first record of the next chunk (the next
   sealed one, or the current one) is over the budget. Step part: an empty
   current takes the record whatever its size; a non-empty current takes it
   exactly when chunk plus record is within the budget, and otherwise is
   sealed and a new chunk starts with the record; sealed chunks stay as they
   are. *)
C9_State ==
  InPartition =>
    /\ \A i \in 1..Len(chunkArrays) : Len(chunkArrays[i]) >= 1
    /\ \A i \in 1..(Len(chunkArrays) - 1) :
         ChunkBytes(Append(chunkArrays[i], chunkArrays[i + 1][1]))
           > MAX_CHUNK_BYTES
    /\ (pc = "loop" /\ Len(chunkArrays) >= 1 /\ current # <<>>) =>
         ChunkBytes(Append(chunkArrays[Len(chunkArrays)], current[1]))
           > MAX_CHUNK_BYTES

C9_Step ==
  /\ (pc = "loop" /\ vi <= Len(values)) =>
       LET v == values[vi]
           joins == current' = Append(current, v)
       IN /\ current = <<>> => joins /\ chunkArrays' = chunkArrays
          /\ current # <<>> =>
               /\ joins <=> ChunkBytes(Append(current, v)) <= MAX_CHUNK_BYTES
               /\ joins => chunkArrays' = chunkArrays
               /\ ~joins => /\ chunkArrays' = Append(chunkArrays, current)
                            /\ current' = <<v>>
  /\ (InPartition /\ pc' \in {"loop", "write_chunks"}) =>
       /\ Len(chunkArrays') >= Len(chunkArrays)
       /\ \A i \in 1..Len(chunkArrays) : chunkArrays'[i] = chunkArrays[i]

C9_GreedyMaximal == [](C9_State) /\ [][C9_Step]_vars

C9_Witness ==
  /\ pc = "write_chunks"
  /\ Len(chunkArrays) >= 2
  /\ Len(chunkArrays[1]) >= 2
  /\ ChunkBytes(chunkArrays[1]) = MAX_CHUNK_BYTES

(* C3: once writeChunkedAll has written all.json for a collection, all.json
   holds a manifest exactly when the run wrote two or more chunks for it;
   with one chunk it holds the array that is in all_1.json. *)
C3_ManifestIffMultiChunk ==
  \A d \in Dirs :
    WroteAll(d) =>
      LET n == Cardinality(WrittenChunks(d))
          doc == allJson[d][1]
      IN /\ allJson[d] # <<>>
         /\ n >= 1
         /\ doc.kind = "manifest" <=> n >= 2
         /\ n = 1 => /\ doc.kind = "array"
                     /\ doc.obj = chunkFile[d][1]
                     /\ doc.obj = recs[d]

\* a run that found two chunk files (so all.json was a manifest), wrote one
\* chunk and put the array in all.json
C3_Witness ==
  /\ pc = "done"
  /\ runs >= 2
  /\ \E d \in Dirs :
       /\ WroteAll(d)
       /\ WrittenChunks(d) = {1}
       /\ allJson[d][1].kind = "array"
       /\ \E i \in 1..Len(files[d]) : files[d][i] = ChunkName(2)

RECURSIVE SumLen(_)
\* the sum of the lengths of a sequence of sequences
SumLen(ss) == IF ss = <<>> THEN 0 ELSE Len(Head(ss)) + SumLen(Tail(ss))

(* C4: a manifest written in this run lists all_1.json .. all_N.json in
   order, N >= 2 being the number of chunks the run wrote for the collection,
   each of them a file written in this run; its count is the number of
   records read, which is the sum of the chunk lengths; it carries the byte
   budget; it has a version field exactly when GITHUB_SHA is set and not
   empty, and then the field is that stamp. *)
C4_ManifestContent ==
  \A d \in Dirs :
    (WroteAll(d) /\ allJson[d][1].kind = "manifest") =>
      LET n == Cardinality(WrittenChunks(d))
          m == allJson[d][1].obj
      IN /\ n >= 2
         /\ m.chunks = [i \in 1..n |-> ChunkName(i)]
         /\ \A i \in 1..n : /\ Path(d, m.chunks[i]) \in written
                            /\ i \in DOMAIN chunkFile[d]
         /\ m.count = Len(recs[d])
         /\ m.count = SumLen(ChunkFilesUpTo(d, n))
         /\ m.maxChunkBytes = MAX_CHUNK_BYTES
         /\ "version" \in DOMAIN m <=> GITHUB_SHA \notin {<<>>, <<"">>}
         /\ "version" \in DOMAIN m =>
              m.version = GITHUB_SHA[1] /\ m.version # ""

C4_Witness ==
  /\ pc = "done"
  /\ GITHUB_SHA = <<"">>
  /\ \E d \in Dirs :
       /\ WroteAll(d)
       /\ allJson[d][1].kind = "manifest"
       /\ "version" \notin DOMAIN allJson[d][1].obj
       /\ Len(allJson[d][1].obj.chunks) >= 3

ReadDone(j) == pc # "read" \/ di > j
\* collection number i needs no more work on its directory
DirFinished(i) == recs[DirSeq[i]] = <<>> \/ WroteAll(DirSeq[i])
\* paths of collection number j that a clean or a write has touched
Touched(j) ==
  {p \in written \cup rmPending \cup rmFailed :
     p.dir = DirSeq[j] /\ p.kind # "legacy"}

(* C6 as stated: a collection is processed fully before any step of the
   next, its read included. *)
C6_Original ==
  \A i, j \in 1..3 : (i < j /\ pc # "failed" /\ ReadDone(j)) => DirFinished(i)

(* C6 amended: the three reads come first; then each non-empty collection, in
   order, is cleaned, partitioned and written up to its all.json before any
   clean or write of the next one; the legacy files come after all of that;
   every removal has settled before the first chunk of the collection is
   written, and no file written in the run is removed in the run. *)
C6_State ==
  /\ pc = "read" => written = {} /\ rmPending = {} /\ rmFailed = {}
  /\ \A i, j \in 1..3 :
       (i < j /\ (Touched(j) # {}
                    \/ (di = j /\ pc \in {"clean", "await_rm", "wca", "loop",
                                          "write_chunks"})))
         => DirFinished(i)
  /\ \A d \in Dirs : WroteLegacy(d) => \A i \in 1..3 : DirFinished(i)
  /\ pc \in {"wca", "loop", "write_chunks"} => rmPending = {}
  /\ \A p \in rmPending : \A q \in written : q.dir # p.dir

C6_Step ==
  written' # {} =>
    \A p \in written :
      /\ p.kind = "chunk" => p.k \in DOMAIN chunkFile'[p.dir]
      /\ p.kind = "all" => allJson'[p.dir] # <<>>
      /\ p.kind = "legacy" => legacy'[p.dir] # <<>>

C6_Order == [](C6_State) /\ [][C6_Step]_vars

\* a second run that cleaned and rewrote two collections
C6_Witness ==
  /\ pc = "done"
  /\ runs >= 2
  /\ WroteAll("items")
  /\ WroteAll("quests")
  /\ \E i \in 1..Len(files["quests"]) : files["quests"][i].kind = "chunk"

(* C7: a collection whose record sequence is empty gets no file in the run:
   nothing is written for it, and its chunk files, its all.json and its
   legacy file stay as they were (absent). *)
C7_State ==
  \A d \in Dirs :
    (pc = "done" /\ recs[d] = <<>>) =>
      /\ \A p \in written : p.dir # d
      /\ chunkFile[d] = <<>>
      /\ allJson[d] = <<>>
      /\ legacy[d] = <<>>

C7_Step ==
  \A d \in Dirs :
    (recs[d] = <<>> /\ recs'[d] = <<>>) =>
      /\ chunkFile'[d] = chunkFile[d]
      /\ allJson'[d] = allJson[d]
      /\ legacy'[d] = legacy[d]
      /\ \A p \in written' : p.dir # d

C7_EmptyWritesNothing == [](C7_State) /\ [][C7_Step]_vars

\* a directory that exists and holds only unreadable files, beside one that
\* was aggregated
C7_Witness ==
  /\ pc = "done"
  /\ \E d, e \in Dirs :
       /\ isDir[d] /\ src[d] # <<>> /\ recs[d] = <<>>
       /\ WroteAll(e)

(* C8: an rm() that throws leaves aggregate() where it was; when
   cleanAllFiles has returned every target was attempted (it is gone, or its
   removal failed); and a run that finishes after such a failure has written
   the chunks, all.json and the legacy file of every non-empty collection. *)
C8_State ==
  /\ (pc \in {"wca", "loop"} /\ rmFailed # {}) =>
       /\ rmPending = {}
       /\ \A f \in Entries(Dir) : IsAllFile(f) => Path(Dir, f) \in rmFailed
  /\ (pc = "done" /\ rmFailed # {}) =>
       \A d \in Dirs :
         recs[d] # <<>> => /\ WrittenChunks(d) # {}
                        /\ WroteAll(d)
                        /\ WroteLegacy(d)

C8_Step ==
  rmFailed' # rmFailed /\ rmFailed' # {} => pc' = pc /\ pc' # "failed"

C8_RmFailureDoesNotAbort == [](C8_State) /\ [][C8_Step]_vars

\* the removal of items/all_1.json failed, that of items/all.json did not,
\* and the run finished with items and a later collection written
C8_Witness ==
  /\ pc = "done"
  /\ rmFailed = {Path("items", ChunkName(1))}
  /\ WroteAll("items")
  /\ WroteLegacy("items")
  /\ \E e \in Dirs : e # "items" /\ WroteLegacy(e) /\ WroteAll(e)

(* C10 as stated: readJsonDir never takes a generated artifact (all.json or
   all_<k>.json) for a record file. *)
C10_NoArtifactRead ==
  \A d \in Dirs : \A i \in 1..Len(files[d]) : files[d][i].kind = "src"

====
